---- MODULE Spec2Model ----
(***************************************************************************)
(* Model of run_server.py: a supervisor that launches a child server,      *)
(* relays the child's stdout/stderr to the controlling output with two     *)
(* daemon threads, captures operator input on a non-daemon thread into a   *)
(* FIFO queue, and runs a main loop that dispatches each captured line     *)
(* (exit / fakelog / forward) and shuts the child down.                    *)
(*                                                                         *)
(* Text is modelled as sequences of one-character strings so that strip,   *)
(* rstrip, lower, startswith and slicing are computed as Python does.      *)
(***************************************************************************)
EXTENDS Integers, Sequences, FiniteSets, TLC

\* ------------------------------------------------------------------ bounds
\* Spec: a child that writes no output
MaxTyped == 2        \* lines the operator types on the controlling input
MaxInterrupts == 1   \* interrupts (Ctrl-C) delivered to the main thread
\* SpecRelay: a child that writes output
RelayMaxTyped == 1        \* lines the operator types
RelayMaxChildLines == 2   \* lines the child writes, over both output streams
RelayMaxInterrupts == 1   \* interrupts delivered to the main thread
\* SpecStreams: a child that writes output, no interrupt
StreamMaxTyped == 1        \* lines the operator types
StreamMaxChildLines == 1   \* lines the child writes, over both output streams
\* SpecClassify: an operator who types lines of every kind, no interrupt
ClassifyMaxTyped == 2      \* lines the operator types
\* SpecOrder: an operator whose forwardable lines are numbered as typed
OrderMaxTyped == 2        \* lines the operator types
OrderMaxInterrupts == 1   \* interrupts delivered to the main thread

\* -------------------------------------------------------------------- text
NL == "\n"
Whitespace == {" ", "\t", "\n", "\r"}

UpperChars == <<"E", "X", "I", "T", "F", "A", "K", "L", "O", "G">>
LowerChars == <<"e", "x", "i", "t", "f", "a", "k", "l", "o", "g">>

\* str.lower() on one character
LowerChar(c) ==
    IF \E i \in DOMAIN UpperChars : UpperChars[i] = c
    THEN LowerChars[CHOOSE i \in DOMAIN UpperChars : UpperChars[i] = c]
    ELSE c

\* str.lower()
Lower(s) == [i \in DOMAIN s |-> LowerChar(s[i])]

\* str.rstrip(): drop trailing whitespace
RECURSIVE RStrip(_)
RStrip(s) ==
    IF s # <<>> /\ s[Len(s)] \in Whitespace
    THEN RStrip(SubSeq(s, 1, Len(s) - 1))
    ELSE s

\* str.lstrip(): drop leading whitespace
RECURSIVE LStrip(_)
LStrip(s) ==
    IF s # <<>> /\ Head(s) \in Whitespace
    THEN LStrip(Tail(s))
    ELSE s

\* str.strip()
Strip(s) == LStrip(RStrip(s))

\* str.startswith(p)
StartsWith(s, p) == Len(s) >= Len(p) /\ SubSeq(s, 1, Len(p)) = p

\* s[n:]
SliceFrom(s, n) == SubSeq(s, n + 1, Len(s))

ExitWord == <<"e", "x", "i", "t">>
FakelogPrefix == <<"f", "a", "k", "e", "l", "o", "g", " ">>
StopLine == <<"s", "t", "o", "p", NL>>
\* line 123: the notice, its Chinese words ("shutting down the server") as one token
InterruptNotice == <<NL, "shutting down the server", ".", ".", ".">>

Digits == <<"0", "1", "2", "3", "4", "5", "6", "7", "8", "9">>
TwoDigits(n) == <<Digits[(n \div 10) + 1], Digits[(n % 10) + 1]>>

\* datetime.strftime("%H:%M:%S")
Strftime(t) == TwoDigits(t[1]) \o <<":">> \o TwoDigits(t[2]) \o <<":">> \o TwoDigits(t[3])

\* f"[{timestamp} INFO]: {message}"
FakelogLine(timestamp, message) ==
    <<"[">> \o timestamp \o <<" ", "I", "N", "F", "O", "]", ":", " ">> \o message

\* print(x): the text plus the newline print appends
PrintText(x) == x \o <<NL>>

\* ------------------------------------------------------------ environment
\* lines the operator may type (raw, as sys.stdin.readline() returns them)
InputLines == {
    <<"E", "x", "i", "T", " ", NL>>,
    <<"f", "a", "k", "e", "l", "o", "g", " ", "h", "i", NL>>,
    <<"s", "a", "y", NL>> }

\* lines the child may write to an output stream (raw, newline-terminated)
OutLines == { <<"o", "k", NL>>, <<"o", "k", " ", NL>>, <<NL>> }

\* wall-clock readings datetime.now() may return, as <<hour, minute, second>>
Clock == { <<10, 15, 7>>, <<9, 5, 0>> }

Streams == {"stdout", "stderr"}

\* value of user_input before the first queue.get() returns
NoLine == <<"<unset>">>

\* ------------------------------------------------------------------- state
VARIABLES
    pc,             \* position of the main thread in main()
    sdCtx,          \* call site of the running shutdown_server: exit / interrupt / finally
    pendingExc,     \* exception in flight while the finally block runs
    user_input,     \* main(): user_input
    child,          \* the child process: "running" or "exited"
    childStdinOpen, \* the child still holds the read end of its stdin pipe
    childIn,        \* everything written to server_process.stdin, in order
    termCalls,      \* number of server_process.terminate() calls
    pipe,           \* per stream: lines in the OS pipe, not yet read
    buf,            \* per stream: lines read from the pipe into Python's buffer
    relay,          \* per stream: state of the read_output thread
    produced,       \* per stream: every line the child has written (history)
    printed,        \* the controlling output, per writer (the two relays, main), in order
    stdinPipe,      \* lines typed, not yet read from the controlling input
    stdinEOF,       \* the operator has closed the controlling input
    stdinClosed,    \* sys.stdin.close() has run
    typedLeft,      \* lines the operator may still type
    outLeft,        \* lines the child may still write
    input_queue,    \* main(): input_queue
    stop_event,     \* main(): stop_event
    inp,            \* state of the input_thread thread
    intLeft,        \* interrupts that may still be delivered
    procEnded,      \* the supervisor process has ended
    fwd,            \* captured lines written to the child by the main loop (history)
    trigger,        \* why the main loop left RUNNING (history)
    aliveAtGet,     \* the child was running when user_input was dequeued (history)
    sdNoops         \* shutdown_server calls that found the child exited (history)

vars == <<pc, sdCtx, pendingExc, user_input, child, childStdinOpen,
          childIn, termCalls, pipe, buf, relay, produced, printed, stdinPipe,
          stdinEOF, stdinClosed, typedLeft, outLeft, input_queue, stop_event,
          inp, intLeft, procEnded, fwd, trigger, aliveAtGet, sdNoops>>

mainVars == <<pc, sdCtx, pendingExc, user_input>>
childVars == <<child, childStdinOpen>>
relayVars == <<pipe, buf, relay, produced, outLeft>>
stdinVars == <<stdinPipe, stdinEOF, typedLeft>>
inpVars == <<input_queue, inp>>

Writers == Streams \cup {"main"}

\* state after start_server() has returned (line 76), with the environment's
\* budget of typed lines, child output lines and interrupts
Launched(typed, out, ints) ==
    /\ typedLeft = typed
    /\ outLeft = out
    /\ intLeft = ints
    /\ pc = "start_relays"
    /\ sdCtx = "none"
    /\ pendingExc = "none"
    /\ user_input = NoLine
    /\ child = "running"
    /\ childStdinOpen = TRUE
    /\ childIn = <<>>
    /\ termCalls = 0
    /\ pipe = [s \in Streams |-> <<>>]
    /\ buf = [s \in Streams |-> <<>>]
    /\ relay = [s \in Streams |-> "notstarted"]
    /\ produced = [s \in Streams |-> <<>>]
    /\ printed = [w \in Writers |-> <<>>]
    /\ stdinPipe = <<>>
    /\ stdinEOF = FALSE
    /\ stdinClosed = FALSE
    /\ input_queue = <<>>
    /\ stop_event = FALSE
    /\ inp = "notstarted"
    /\ procEnded = FALSE
    /\ fwd = <<>>
    /\ trigger = "none"
    /\ aliveAtGet = FALSE
    /\ sdNoops = 0

Init == Launched(MaxTyped, 0, MaxInterrupts)
InitRelay == Launched(RelayMaxTyped, RelayMaxChildLines, RelayMaxInterrupts)

\* ------------------------------------------------- environment: the child
\* the child writes one line to one of its output streams
ChildWrite(s, line) ==
    /\ child = "running"
    /\ outLeft > 0
    /\ outLeft' = outLeft - 1
    /\ pipe' = [pipe EXCEPT ![s] = Append(@, line)]
    /\ produced' = [produced EXCEPT ![s] = Append(@, line)]
    /\ UNCHANGED <<mainVars, childVars, childIn, termCalls, buf, relay, printed,
                   stdinVars, stdinClosed, inpVars, stop_event, intLeft,
                   procEnded, fwd, trigger, aliveAtGet, sdNoops>>

\* the child closes its standard input while it keeps running
ChildCloseStdin ==
    /\ child = "running"
    /\ childStdinOpen
    /\ childStdinOpen' = FALSE
    /\ UNCHANGED <<mainVars, child, childIn, termCalls, relayVars, printed,
                   stdinVars, stdinClosed, inpVars, stop_event, intLeft,
                   procEnded, fwd, trigger, aliveAtGet, sdNoops>>

\* the child exits (on its own, after reading stop, or after SIGTERM)
ChildExit ==
    /\ child = "running"
    /\ child' = "exited"
    /\ childStdinOpen' = FALSE
    /\ UNCHANGED <<mainVars, childIn, termCalls, relayVars, printed,
                   stdinVars, stdinClosed, inpVars, stop_event, intLeft,
                   procEnded, fwd, trigger, aliveAtGet, sdNoops>>

\* ------------------------------------------------ environment: the operator
OperatorType(line) ==
    /\ ~procEnded
    /\ ~stdinEOF
    /\ typedLeft > 0
    /\ stdinPipe' = Append(stdinPipe, line)
    /\ typedLeft' = typedLeft - 1
    /\ UNCHANGED <<mainVars, childVars, childIn, termCalls, relayVars, printed,
                   stdinEOF, stdinClosed, inpVars, stop_event,
                   intLeft, procEnded, fwd, trigger, aliveAtGet, sdNoops>>

OperatorEOF ==
    /\ ~procEnded
    /\ ~stdinEOF
    /\ stdinEOF' = TRUE
    /\ UNCHANGED <<mainVars, childVars, childIn, termCalls, relayVars, printed,
                   stdinPipe, typedLeft, stdinClosed, inpVars,
                   stop_event, intLeft, procEnded, fwd, trigger, aliveAtGet, sdNoops>>

\* ------------------------------------------------------------ read_output
\* handle_output(line.rstrip()): what one relayed line puts on the output
RelayEmit(line) == PrintText(RStrip(line))

\* select() on the stream's fd: data in the pipe, or end of file
PipeReady(s) == pipe[s] # <<>> \/ child = "exited"

\* pipe.readline() on the buffered text stream: a line already in Python's
\* buffer is served first; otherwise one read takes all the pipe holds and
\* the first line is returned; at end of file the result is ""
Readline(buffer, os_pipe) ==
    IF buffer # <<>>
    THEN [line |-> Head(buffer), buffer |-> Tail(buffer), os_pipe |-> os_pipe]
    ELSE IF os_pipe # <<>>
    THEN [line |-> Head(os_pipe), buffer |-> Tail(os_pipe), os_pipe |-> <<>>]
    ELSE [line |-> <<>>, buffer |-> <<>>, os_pipe |-> <<>>]

RelayReadStopsOnBlank(s) ==
    /\ relay[s] = "running"
    /\ PipeReady(s)
    /\ LET r == Readline(buf[s], pipe[s]) IN
          /\ buf' = [buf EXCEPT ![s] = r.buffer]
          /\ pipe' = [pipe EXCEPT ![s] = r.os_pipe]
          /\ IF RStrip(r.line) = <<>>
             THEN /\ relay' = [relay EXCEPT ![s] = "stopped"]
                  /\ UNCHANGED printed
             ELSE /\ printed' = [printed EXCEPT ![s] = Append(@, RelayEmit(r.line))]
                  /\ UNCHANGED relay
    /\ UNCHANGED <<mainVars, childVars, childIn, termCalls, produced, outLeft,
                   stdinVars, stdinClosed, inpVars, stop_event, intLeft,
                   procEnded, fwd, trigger, aliveAtGet, sdNoops>>

\* one iteration of read_output whose select() reports the pipe ready
\* (an iteration whose select() times out changes nothing)
RelayRead(s) ==
    /\ relay[s] = "running"
    /\ PipeReady(s)
    /\ LET r == Readline(buf[s], pipe[s]) IN
          /\ buf' = [buf EXCEPT ![s] = r.buffer]
          /\ pipe' = [pipe EXCEPT ![s] = r.os_pipe]
          /\ IF r.line = <<>>                           \* if not line: break
             THEN /\ relay' = [relay EXCEPT ![s] = "stopped"]
                  /\ UNCHANGED printed
             ELSE /\ printed' = [printed EXCEPT ![s] = Append(@, RelayEmit(r.line))]
                  /\ UNCHANGED relay
    /\ UNCHANGED <<mainVars, childVars, childIn, termCalls, produced, outLeft,
                   stdinVars, stdinClosed, inpVars, stop_event, intLeft,
                   procEnded, fwd, trigger, aliveAtGet, sdNoops>>

\* ----------------------------------------------------------- input_thread
InpCheckIgnoresFlag ==
    /\ inp = "check"
    /\ inp' = "select"
    /\ UNCHANGED <<mainVars, childVars, childIn, termCalls, relayVars, printed,
                   stdinVars, stdinClosed, input_queue, stop_event, intLeft,
                   procEnded, fwd, trigger, aliveAtGet, sdNoops>>

\* while not stop_event.is_set()
InpCheck ==
    /\ inp = "check"
    /\ inp' = IF stop_event THEN "done" ELSE "select"
    /\ UNCHANGED <<mainVars, childVars, childIn, termCalls, relayVars, printed,
                   stdinVars, stdinClosed, input_queue, stop_event, intLeft,
                   procEnded, fwd, trigger, aliveAtGet, sdNoops>>

\* select() on sys.stdin's fd: typed data, or end of input
StdinReady == stdinPipe # <<>> \/ stdinEOF

\* the body of the loop: select, readline, put(line.strip())
\* (the controlling input hands over one typed line per read)
InpSelect ==
    /\ inp = "select"
    /\ \/ /\ stdinClosed                \* select on the closed file raises
          /\ inp' = "done"
          /\ UNCHANGED <<stdinPipe, input_queue>>
       \/ /\ ~stdinClosed
          /\ ~StdinReady                \* select timed out
          /\ inp' = "check"
          /\ UNCHANGED <<stdinPipe, input_queue>>
       \/ /\ ~stdinClosed
          /\ stdinPipe # <<>>
          /\ input_queue' = Append(input_queue, Strip(Head(stdinPipe)))
          /\ stdinPipe' = Tail(stdinPipe)
          /\ inp' = "check"
       \/ /\ ~stdinClosed
          /\ stdinPipe = <<>>
          /\ stdinEOF                   \* readline() returns "": break
          /\ inp' = "done"
          /\ UNCHANGED <<stdinPipe, input_queue>>
    /\ UNCHANGED <<mainVars, childVars, childIn, termCalls, relayVars, printed,
                   stdinEOF, typedLeft, stdinClosed, stop_event, intLeft,
                   procEnded, fwd, trigger, aliveAtGet, sdNoops>>

\* ------------------------------------------------------------------ main
\* server_process.poll() is None
PollIsNone == child = "running"

\* a write and flush on server_process.stdin succeeds while the child holds
\* the read end of the pipe; otherwise it raises BrokenPipeError
WriteSucceeds == child = "running" /\ childStdinOpen

\* lines 81-92: create and start the two daemon relay threads
StartRelays ==
    /\ pc = "start_relays"
    /\ relay' = [s \in Streams |-> "running"]
    /\ pc' = "start_inp"
    /\ UNCHANGED <<sdCtx, pendingExc, user_input, childVars, childIn,
                   termCalls, pipe, buf, produced, outLeft, printed, stdinVars,
                   stdinClosed, inpVars, stop_event, intLeft, procEnded,
                   fwd, trigger, aliveAtGet, sdNoops>>

\* lines 95-98: create the queue and the event, start the input thread
StartInput ==
    /\ pc = "start_inp"
    /\ inp' = "check"
    /\ pc' = "poll"
    /\ UNCHANGED <<sdCtx, pendingExc, user_input, childVars, childIn,
                   termCalls, relayVars, printed, stdinVars, stdinClosed,
                   input_queue, stop_event, intLeft, procEnded, fwd, trigger, aliveAtGet, sdNoops>>

MainPollNoBreak ==
    /\ pc = "poll"
    /\ pc' = "get"
    /\ UNCHANGED <<sdCtx, pendingExc, user_input, childVars, childIn,
                   termCalls, relayVars, printed, stdinVars, stdinClosed,
                   inpVars, stop_event, intLeft, procEnded, fwd, trigger,
                   aliveAtGet, sdNoops>>

\* lines 103-104: if server_process.poll() is not None: break
MainPoll ==
    /\ pc = "poll"
    /\ IF PollIsNone
       THEN pc' = "get" /\ UNCHANGED trigger
       ELSE pc' = "finally_set" /\ trigger' = "child_exit"
    /\ UNCHANGED <<sdCtx, pendingExc, user_input, childVars, childIn,
                   termCalls, relayVars, printed, stdinVars, stdinClosed,
                   inpVars, stop_event, intLeft, procEnded, fwd, aliveAtGet, sdNoops>>

MainGetNewest ==
    /\ pc = "get"
    /\ \/ /\ input_queue # <<>>
          /\ user_input' = input_queue[Len(input_queue)]
          /\ input_queue' = SubSeq(input_queue, 1, Len(input_queue) - 1)
          /\ aliveAtGet' = (child = "running")
          /\ pc' = "dispatch"
       \/ /\ input_queue = <<>>
          /\ pc' = "poll"
          /\ UNCHANGED <<user_input, input_queue, aliveAtGet>>
    /\ UNCHANGED <<sdCtx, pendingExc, childVars, childIn, termCalls,
                   relayVars, printed, stdinVars, stdinClosed, inp, stop_event,
                   intLeft, procEnded, fwd, trigger, sdNoops>>

\* lines 106-109: user_input = input_queue.get(timeout=0.1), or continue
MainGet ==
    /\ pc = "get"
    /\ \/ /\ input_queue # <<>>
          /\ user_input' = Head(input_queue)
          /\ input_queue' = Tail(input_queue)
          /\ aliveAtGet' = (child = "running")
          /\ pc' = "dispatch"
       \/ /\ input_queue = <<>>         \* queue.Empty
          /\ pc' = "poll"
          /\ UNCHANGED <<user_input, input_queue, aliveAtGet>>
    /\ UNCHANGED <<sdCtx, pendingExc, childVars, childIn, termCalls,
                   relayVars, printed, stdinVars, stdinClosed, inp, stop_event,
                   intLeft, procEnded, fwd, trigger, sdNoops>>

ClassifyCaseSensitive(line) ==
    IF line = ExitWord THEN "exit"
    ELSE IF StartsWith(line, FakelogPrefix) THEN "fakelog"
    ELSE "forward"

ClassifyPrefixAnyCase(line) ==
    IF Lower(line) = ExitWord THEN "exit"
    ELSE IF StartsWith(Lower(line), FakelogPrefix) THEN "fakelog"
    ELSE "forward"

\* lines 111, 114, 118: which branch of the if/elif/else takes the line
Classify(line) ==
    IF Lower(line) = ExitWord THEN "exit"
    ELSE IF StartsWith(line, FakelogPrefix) THEN "fakelog"
    ELSE "forward"

FakelogMessageOffByOne(line) == SliceFrom(line, Len(FakelogPrefix) - 1)

\* line 115: message = user_input[len('fakelog '):]
FakelogMessage(line) == SliceFrom(line, Len(FakelogPrefix))

\* lines 111-119: the dispatch on user_input
MainDispatch ==
    /\ pc = "dispatch"
    /\ \/ /\ Classify(user_input) = "exit"              \* line 112
          /\ pc' = "sd_poll"
          /\ sdCtx' = "exit"
          /\ trigger' = "exit"
          /\ UNCHANGED printed
       \/ /\ Classify(user_input) = "fakelog"           \* lines 115-117
          /\ \E now \in Clock :
                printed' = [printed EXCEPT !["main"] = Append(@,
                    PrintText(FakelogLine(Strftime(now), FakelogMessage(user_input))))]
          /\ pc' = "poll"
          /\ UNCHANGED <<sdCtx, trigger>>
       \/ /\ Classify(user_input) = "forward"           \* line 119
          /\ pc' = IF PollIsNone THEN "write" ELSE "poll"
          /\ UNCHANGED <<sdCtx, trigger, printed>>
    /\ UNCHANGED <<pendingExc, user_input, childVars, childIn,
                   termCalls, relayVars, stdinVars, stdinClosed, inpVars,
                   stop_event, intLeft, procEnded, fwd, aliveAtGet, sdNoops>>

ForwardTextNoNewline(line) == line

\* line 120: user_input + "\n"
ForwardText(line) == line \o <<NL>>

\* lines 120-121: server_process.stdin.write(user_input + "\n"); flush()
\* a BrokenPipeError is not caught by "except KeyboardInterrupt": it runs
\* the finally block and leaves main()
MainWrite ==
    /\ pc = "write"
    /\ IF WriteSucceeds
       THEN /\ childIn' = Append(childIn, ForwardText(user_input))
            /\ fwd' = Append(fwd, user_input)
            /\ pc' = "poll"
            /\ UNCHANGED <<pendingExc, trigger>>
       ELSE /\ pendingExc' = "BrokenPipeError"
            /\ trigger' = "error"
            /\ pc' = "finally_set"
            /\ UNCHANGED <<childIn, fwd>>
    /\ UNCHANGED <<sdCtx, user_input, childVars, termCalls, relayVars,
                   printed, stdinVars, stdinClosed, inpVars, stop_event,
                   intLeft, procEnded, aliveAtGet, sdNoops>>

\* line 113: break
MainBreak ==
    /\ pc = "break"
    /\ pc' = "finally_set"
    /\ UNCHANGED <<sdCtx, pendingExc, user_input, childVars, childIn,
                   termCalls, relayVars, printed, stdinVars, stdinClosed,
                   inpVars, stop_event, intLeft, procEnded, fwd, trigger, aliveAtGet, sdNoops>>

ExceptPrintOnly ==
    /\ pc = "except_print"
    /\ printed' = [printed EXCEPT !["main"] = Append(@, PrintText(InterruptNotice))]
    /\ pc' = "finally_set"
    /\ UNCHANGED <<sdCtx, pendingExc, user_input, childVars, childIn,
                   termCalls, relayVars, stdinVars, stdinClosed, inpVars,
                   stop_event, intLeft, procEnded, fwd, trigger, aliveAtGet,
                   sdNoops>>

\* line 123: print the notice, then line 124 calls shutdown_server
ExceptPrint ==
    /\ pc = "except_print"
    /\ printed' = [printed EXCEPT !["main"] = Append(@, PrintText(InterruptNotice))]
    /\ pc' = "sd_poll"
    /\ sdCtx' = "interrupt"
    /\ UNCHANGED <<pendingExc, user_input, childVars, childIn,
                   termCalls, relayVars, stdinVars, stdinClosed, inpVars,
                   stop_event, intLeft, procEnded, fwd, trigger, aliveAtGet, sdNoops>>

\* -------------------------------------------------------- shutdown_server
\* where control continues when shutdown_server returns to its call site
SdReturnPc(ctx) ==
    CASE ctx = "exit" -> "break"
      [] ctx = "interrupt" -> "finally_set"
      [] ctx = "finally" -> "finally_close"

SdPollUnchecked ==
    /\ pc = "sd_poll"
    /\ pc' = "sd_write"
    /\ UNCHANGED <<sdCtx, pendingExc, user_input, childVars, childIn,
                   termCalls, relayVars, printed, stdinVars, stdinClosed,
                   inpVars, stop_event, intLeft, procEnded, fwd, trigger,
                   aliveAtGet, sdNoops>>

\* line 47: if server_process.poll() is None
SdPoll ==
    /\ pc = "sd_poll"
    /\ IF PollIsNone
       THEN pc' = "sd_write" /\ UNCHANGED <<sdCtx, sdNoops>>
       ELSE pc' = SdReturnPc(sdCtx) /\ sdCtx' = "none" /\ sdNoops' = sdNoops + 1
    /\ UNCHANGED <<pendingExc, user_input, childVars, childIn,
                   termCalls, relayVars, printed, stdinVars, stdinClosed,
                   inpVars, stop_event, intLeft, procEnded, fwd, trigger,
                   aliveAtGet>>

SdWriteNothing ==
    /\ pc = "sd_write"
    /\ pc' = "sd_wait"
    /\ UNCHANGED <<sdCtx, pendingExc, user_input, childVars, childIn, termCalls,
                   relayVars, printed, stdinVars, stdinClosed, inpVars,
                   stop_event, intLeft, procEnded, fwd, trigger, aliveAtGet,
                   sdNoops>>

\* lines 48-52: write "stop\n" and flush; any Exception is swallowed
SdWrite ==
    /\ pc = "sd_write"
    /\ childIn' = IF WriteSucceeds THEN Append(childIn, StopLine) ELSE childIn
    /\ pc' = "sd_wait"
    /\ UNCHANGED <<sdCtx, pendingExc, user_input, childVars, termCalls,
                   relayVars, printed, stdinVars, stdinClosed, inpVars,
                   stop_event, intLeft, procEnded, fwd, trigger, aliveAtGet, sdNoops>>

\* lines 53-55: server_process.wait(timeout=10) returns once the child has
\* exited, or raises TimeoutExpired with the child still running
SdWait ==
    /\ pc = "sd_wait"
    /\ IF child = "exited"
       THEN pc' = SdReturnPc(sdCtx) /\ sdCtx' = "none"
       ELSE pc' = "sd_terminate" /\ UNCHANGED sdCtx
    /\ UNCHANGED <<pendingExc, user_input, childVars, childIn, termCalls,
                   relayVars, printed, stdinVars, stdinClosed, inpVars,
                   stop_event, intLeft, procEnded, fwd, trigger, aliveAtGet, sdNoops>>

\* line 56: server_process.terminate()
SdTerminate ==
    /\ pc = "sd_terminate"
    /\ termCalls' = termCalls + 1
    /\ pc' = "sd_wait_forever"
    /\ UNCHANGED <<sdCtx, pendingExc, user_input, childVars, childIn,
                   relayVars, printed, stdinVars, stdinClosed, inpVars,
                   stop_event, intLeft, procEnded, fwd, trigger, aliveAtGet, sdNoops>>

\* line 57: server_process.wait() blocks until the child has exited
SdWaitForever ==
    /\ pc = "sd_wait_forever"
    /\ child = "exited"
    /\ pc' = SdReturnPc(sdCtx)
    /\ sdCtx' = "none"
    /\ UNCHANGED <<pendingExc, user_input, childVars, childIn,
                   termCalls, relayVars, printed, stdinVars, stdinClosed,
                   inpVars, stop_event, intLeft, procEnded, fwd, trigger, aliveAtGet, sdNoops>>

\* ---------------------------------------------------------- finally block
FinallySetNothing ==
    /\ pc = "finally_set"
    /\ pc' = "finally_join"
    /\ UNCHANGED <<sdCtx, pendingExc, user_input, childVars, childIn,
                   termCalls, relayVars, printed, stdinVars, stdinClosed,
                   inpVars, stop_event, intLeft, procEnded, fwd, trigger,
                   aliveAtGet, sdNoops>>

\* line 127: stop_event.set()
FinallySet ==
    /\ pc = "finally_set"
    /\ stop_event' = TRUE
    /\ pc' = "finally_join"
    /\ UNCHANGED <<sdCtx, pendingExc, user_input, childVars, childIn,
                   termCalls, relayVars, printed, stdinVars, stdinClosed,
                   inpVars, intLeft, procEnded, fwd, trigger, aliveAtGet, sdNoops>>

\* line 128: inp_thread.join(timeout=1) returns when the thread has ended
\* or the timeout has passed
FinallyJoin ==
    /\ pc = "finally_join"
    /\ pc' = "finally_poll"
    /\ UNCHANGED <<sdCtx, pendingExc, user_input, childVars, childIn,
                   termCalls, relayVars, printed, stdinVars, stdinClosed,
                   inpVars, stop_event, intLeft, procEnded, fwd, trigger, aliveAtGet, sdNoops>>

\* lines 129-130: if server_process.poll() is None: shutdown_server(...)
FinallyPoll ==
    /\ pc = "finally_poll"
    /\ IF PollIsNone
       THEN pc' = "sd_poll" /\ sdCtx' = "finally"
       ELSE pc' = "finally_close" /\ UNCHANGED sdCtx
    /\ UNCHANGED <<pendingExc, user_input, childVars, childIn,
                   termCalls, relayVars, printed, stdinVars, stdinClosed,
                   inpVars, stop_event, intLeft, procEnded, fwd, trigger, aliveAtGet, sdNoops>>

\* lines 132-135: sys.stdin.close(); then main() returns, or the exception
\* that entered the finally block is raised again
FinallyClose ==
    /\ pc = "finally_close"
    /\ stdinClosed' = TRUE
    /\ pc' = IF pendingExc = "none" THEN "done" ELSE "raised"
    /\ UNCHANGED <<sdCtx, pendingExc, user_input, childVars, childIn,
                   termCalls, relayVars, printed, stdinVars, inpVars,
                   stop_event, intLeft, procEnded, fwd, trigger, aliveAtGet, sdNoops>>

\* ------------------------------------------------------------- interrupts
SdPcs == {"sd_poll", "sd_write", "sd_wait", "sd_terminate", "sd_wait_forever"}
StartupPcs == {"start_relays", "start_inp"}
LoopPcs == {"poll", "get", "dispatch", "write"}
FinallyPcs == {"finally_set", "finally_join", "finally_poll", "finally_close"}

\* the main thread is inside the try body (lines 101-121)
InTry == pc \in LoopPcs \cup {"break"} \/ (pc \in SdPcs /\ sdCtx = "exit")
\* the main thread is inside the except handler (lines 123-124)
InExcept == pc = "except_print" \/ (pc \in SdPcs /\ sdCtx = "interrupt")
\* the main thread is inside the finally block (lines 127-135)
InFinally == pc \in FinallyPcs \/ (pc \in SdPcs /\ sdCtx = "finally")

\* a KeyboardInterrupt is raised in the main thread at its current position:
\* the try body hands it to the except handler (line 122); raised inside the
\* handler it runs the finally block and leaves main(); raised before the
\* try or inside the finally block it leaves main() at once
Interrupt ==
    /\ intLeft > 0
    /\ pc \notin {"done", "raised"}
    /\ intLeft' = intLeft - 1
    /\ sdCtx' = "none"
    /\ pc' = IF InTry THEN "except_print"
             ELSE IF InExcept THEN "finally_set"
             ELSE "raised"
    /\ pendingExc' = IF InTry THEN pendingExc ELSE "KeyboardInterrupt"
    /\ trigger' = IF trigger = "none" THEN "interrupt" ELSE trigger
    /\ UNCHANGED <<user_input, childVars, childIn, termCalls, relayVars,
                   printed, stdinVars, stdinClosed, inpVars, stop_event,
                   procEnded, fwd, aliveAtGet, sdNoops>>

\* ------------------------------------------------------------ process end
\* main() is over and the non-daemon input thread has ended: the interpreter
\* exits and the daemon relay threads die where they are
ProcessExit ==
    /\ ~procEnded
    /\ pc \in {"done", "raised"}
    /\ inp \in {"notstarted", "done"}
    /\ procEnded' = TRUE
    /\ relay' = [s \in Streams |-> IF relay[s] = "running" THEN "killed" ELSE relay[s]]
    /\ UNCHANGED <<mainVars, childVars, childIn, termCalls, pipe, buf, produced,
                   outLeft, printed, stdinVars, stdinClosed, inpVars,
                   stop_event, intLeft, fwd, trigger, aliveAtGet, sdNoops>>

\* ---------------------------------------------------------- specification
Next ==
    \/ ChildCloseStdin
    \/ ChildExit
    \/ \E line \in InputLines : OperatorType(line)
    \/ OperatorEOF
    \/ \E s \in Streams : RelayRead(s)
    \/ InpCheck
    \/ InpSelect
    \/ StartRelays
    \/ StartInput
    \/ MainPoll
    \/ MainGet
    \/ MainDispatch
    \/ MainWrite
    \/ MainBreak
    \/ ExceptPrint
    \/ SdPoll
    \/ SdWrite
    \/ SdWait
    \/ SdTerminate
    \/ SdWaitForever
    \/ FinallySet
    \/ FinallyJoin
    \/ FinallyPoll
    \/ FinallyClose
    \/ Interrupt
    \/ ProcessExit

\* the same system with a child that also writes to its output streams
NextRelay ==
    \/ Next
    \/ \E s \in Streams, line \in OutLines : ChildWrite(s, line)

Spec == Init /\ [][Next]_vars
SpecRelay == InitRelay /\ [][NextRelay]_vars

\* ------------------------------------------------------------ threads
\* the next step of the main thread (one action per position)
MainStep ==
    \/ StartRelays \/ StartInput \/ MainPoll \/ MainGet \/ MainDispatch
    \/ MainWrite \/ MainBreak \/ ExceptPrint \/ SdPoll \/ SdWrite \/ SdWait
    \/ SdTerminate \/ SdWaitForever \/ FinallySet \/ FinallyJoin
    \/ FinallyPoll \/ FinallyClose

\* the next step of the input thread
InpStep == InpCheck \/ InpSelect

\* ------------------------------------------- operator with numbered lines
\* the k-th line typed, when it is a line to forward: " l<k>\n"
OrderLine(k) == <<" ", "l", Digits[k + 1], NL>>

\* lines of the other two kinds
OtherLines == { l \in InputLines : Classify(Strip(l)) # "forward" }

\* the operator types the next line: the numbered one, or one of the others
OperatorTypeInOrder ==
    \E line \in {OrderLine(OrderMaxTyped - typedLeft + 1)} \cup OtherLines :
        OperatorType(line)

InitOrder == Launched(OrderMaxTyped, 0, OrderMaxInterrupts)

\* the system with that operator and a child that keeps its input open
NextOrder ==
    \/ ChildExit
    \/ OperatorTypeInOrder
    \/ OperatorEOF
    \/ \E s \in Streams : RelayRead(s)
    \/ InpCheck
    \/ InpSelect
    \/ MainStep
    \/ Interrupt
    \/ ProcessExit

SpecOrder == InitOrder /\ [][NextOrder]_vars

\* ------------------------------------------------- systems, no interrupt
\* the steps of the program's threads when no interrupt is delivered: the
\* except handler is never entered
ProgramNoInterrupt ==
    \/ \E s \in Streams : RelayRead(s)
    \/ InpCheck
    \/ InpSelect
    \/ StartRelays
    \/ StartInput
    \/ MainPoll
    \/ MainGet
    \/ MainDispatch
    \/ MainWrite
    \/ MainBreak
    \/ SdPoll
    \/ SdWrite
    \/ SdWait
    \/ SdTerminate
    \/ SdWaitForever
    \/ FinallySet
    \/ FinallyJoin
    \/ FinallyPoll
    \/ FinallyClose
    \/ ProcessExit

InitStreams == Launched(StreamMaxTyped, StreamMaxChildLines, 0)

\* a child that writes output and keeps its input open
NextStreams ==
    \/ \E s \in Streams, line \in OutLines : ChildWrite(s, line)
    \/ ChildExit
    \/ \E line \in InputLines : OperatorType(line)
    \/ OperatorEOF
    \/ ProgramNoInterrupt

SpecStreams == InitStreams /\ [][NextStreams]_vars

\* lines of every kind the operator may type: InputLines, the empty line,
\* fakelog with nothing after it, the prefix in upper case, exit with spaces
\* in front, exit followed by text
ClassifyLines == InputLines \cup {
    <<NL>>,
    <<"f", "a", "k", "e", "l", "o", "g", " ", NL>>,
    <<"F", "A", "K", "E", "L", "O", "G", " ", "x", NL>>,
    <<" ", " ", "E", "X", "I", "T", NL>>,
    <<"e", "x", "i", "t", " ", "x", NL>> }

InitClassify == Launched(ClassifyMaxTyped, 0, 0)

\* a quiet child that keeps its input open, and that operator
NextClassify ==
    \/ ChildExit
    \/ \E line \in ClassifyLines : OperatorType(line)
    \/ OperatorEOF
    \/ ProgramNoInterrupt

SpecClassify == InitClassify /\ [][NextClassify]_vars

\* ------------------------------------------------------------- scheduling
\* a child that exits once it has been sent stop or SIGTERM
ChildObeys == ChildExit /\ (termCalls > 0 \/ \E i \in DOMAIN childIn : childIn[i] = StopLine)

\* every thread that can take a step eventually takes one, the interpreter
\* exits once no non-daemon thread is left, and the child obeys
Fairness ==
    /\ WF_vars(MainStep)
    /\ WF_vars(InpStep)
    /\ \A s \in Streams : WF_vars(RelayRead(s))
    /\ WF_vars(ProcessExit)
    /\ WF_vars(ChildObeys)

SpecFair == Init /\ [][Next]_vars /\ Fairness
SpecRelayFair == InitRelay /\ [][NextRelay]_vars /\ Fairness

TypeOK ==
    /\ pc \in StartupPcs \cup LoopPcs \cup SdPcs \cup FinallyPcs
              \cup {"break", "except_print", "done", "raised"}
    /\ sdCtx \in {"none", "exit", "interrupt", "finally"}
    /\ (pc \in SdPcs) = (sdCtx # "none")
    /\ child \in {"running", "exited"}
    /\ \A s \in Streams : relay[s] \in {"notstarted", "running", "stopped", "killed"}
    /\ inp \in {"notstarted", "check", "select", "done"}

\* ================================================================== claims
IsPrefix(a, b) == Len(a) <= Len(b) /\ SubSeq(b, 1, Len(a)) = a

NotInterrupted == intLeft' = intLeft
MainMoved == pc' # pc /\ NotInterrupted

\* the line equals exit in some letter case
IsExitLine(l) == Len(l) = 4 /\ Lower(l) = <<"e", "x", "i", "t">>
\* the line starts with "fakelog "
IsFakelogLine(l) ==
    Len(l) >= 8 /\ SubSeq(l, 1, 8) = <<"f", "a", "k", "e", "l", "o", "g", " ">>
\* a dequeued line that is neither
IsOtherLine(l) == l # NoLine /\ ~IsExitLine(l) /\ ~IsFakelogLine(l)

\* C1: when the supervisor process has ended, every line the child wrote to
\* a stream has been printed exactly once and unmodified, in the order the
\* child produced it; until then what has been printed of a stream is a
\* prefix of what the child wrote to it.
C1_EveryChildLinePrinted ==
    \A s \in Streams :
        /\ IsPrefix(printed[s], produced[s])
        /\ procEnded => printed[s] = produced[s]

ExitDequeued == user_input # NoLine /\ IsExitLine(user_input)

\* once the main loop has dequeued a line that equals exit in some letter
\* case, it enters the shutdown sequence (directly, or through the interrupt
\* handler), never returns to the loop, and forwards no captured line to the
\* child; the only text it may still write is the stop line
C2_AfterExit ==
    [][ExitDequeued =>
          /\ pc' \notin {"poll", "get", "write"}
          /\ (pc = "dispatch" /\ pc' # pc => pc' \in {"sd_poll", "except_print"})
          /\ fwd' = fwd
          /\ childIn' \in {childIn, Append(childIn, StopLine)}]_vars

\* no line written to the child equals exit
C2_ExitNeverForwarded ==
    [][childIn' # childIn =>
          \A i \in DOMAIN childIn' :
              ~IsExitLine(SubSeq(childIn'[i], 1, Len(childIn'[i]) - 1))]_vars

\* C2: dequeuing a line equal to exit in any letter case leads to the
\* shutdown sequence and out of RUNNING; from then on no captured line is
\* written to the child, and the text exit is never written to the child.
C2_ExitStopsForwarding == C2_AfterExit /\ C2_ExitNeverForwarded

C2_Witness ==
    /\ ExitDequeued
    /\ pc = "done"
    /\ input_queue # <<>>
    /\ childIn = <<StopLine>>

Handling == pc \in {"dispatch", "write"}

WriteReachesChild == pc = "write" /\ MainMoved /\ child = "running" /\ childStdinOpen

C4_Stamp(now) ==
    CASE now = <<10, 15, 7>> -> <<"1", "0", ":", "1", "5", ":", "0", "7">>
      [] now = <<9, 5, 0>> -> <<"0", "9", ":", "0", "5", ":", "0", "0">>

C4_Expected(now, l) ==
    <<"[">> \o C4_Stamp(now) \o <<" ", "I", "N", "F", "O", "]", ":", " ">>
        \o SubSeq(l, 9, Len(l)) \o <<NL>>

\* C4: handling a line that starts with "fakelog " prints one line
\* "[HH:MM:SS INFO]: <message>" whose message is the text after the prefix,
\* and changes neither the child's input, nor the child, nor the main-loop
\* state: the loop continues with its next iteration.
C4_FakelogPrintsOnly ==
    [][(pc = "dispatch" /\ IsFakelogLine(user_input) /\ MainMoved) =>
          /\ \E now \in Clock :
                printed' = [printed EXCEPT !["main"] =
                                Append(@, C4_Expected(now, user_input))]
          /\ pc' = "poll"
          /\ UNCHANGED <<childIn, fwd, child, childStdinOpen, termCalls,
                         trigger, stop_event, pendingExc>>]_vars

C4_Witness ==
    /\ pc = "poll"
    /\ printed["main"] = << <<"[", "1", "0", ":", "1", "5", ":", "0", "7", " ",
                              "I", "N", "F", "O", "]", ":", " ", "h", "i", NL>> >>
    /\ childIn = <<>>
    /\ child = "running"

SdBody == {"sd_write", "sd_wait", "sd_terminate", "sd_wait_forever"}

\* C5: in the shutdown sequence the stop line is written before any wait or
\* forced termination; terminate is called only after the wait has timed out
\* with the child still running; a wait that finds the child exited returns
\* without terminate; after terminate the sequence returns only once the
\* child has exited.
C5_ShutdownOrder ==
    /\ [][pc' = "sd_write" /\ pc # "sd_write" => pc = "sd_poll" /\ child = "running"]_vars
    /\ [][pc' = "sd_wait" /\ pc # "sd_wait" =>
            /\ pc = "sd_write"
            /\ childIn' = IF child = "running" /\ childStdinOpen
                          THEN Append(childIn, <<"s", "t", "o", "p", NL>>)
                          ELSE childIn]_vars
    /\ [][pc' = "sd_terminate" /\ pc # "sd_terminate" =>
            pc = "sd_wait" /\ child = "running"]_vars
    /\ [][pc = "sd_wait" /\ child = "exited" /\ MainMoved =>
            pc' \notin SdBody /\ termCalls' = termCalls]_vars
    /\ [][termCalls' # termCalls =>
            /\ pc = "sd_terminate"
            /\ termCalls' = termCalls + 1
            /\ pc' = "sd_wait_forever"]_vars
    /\ [][pc = "sd_wait_forever" /\ MainMoved =>
            child = "exited" /\ pc' \notin SdBody]_vars

C5_Witness ==
    /\ pc = "done"
    /\ trigger = "exit"
    /\ childIn = <<StopLine>>
    /\ termCalls = 1
    /\ child = "exited"

\* C6: a liveness check of the main loop that finds the child exited leaves
\* the loop for the cleanup and changes nothing else; from then on nothing is
\* written to the child, terminate is not called, no command is dequeued,
\* forwarded or printed, and the shutdown sequence is not entered. A child
\* that has exited is never sent stop or terminated by a shutdown sequence
\* entered afterwards.
C6_ChildExitGoesToCleanup ==
    /\ [][pc = "poll" /\ child = "exited" /\ MainMoved =>
            /\ pc' = "finally_set"
            /\ UNCHANGED <<childIn, termCalls, printed, input_queue, fwd,
                           user_input>>]_vars
    /\ [][trigger = "child_exit" =>
            /\ UNCHANGED <<childIn, termCalls, fwd, user_input>>
            /\ IsPrefix(input_queue, input_queue')
            /\ printed'["main"] = printed["main"]
            /\ pc' \in FinallyPcs \cup {"done", "raised"}]_vars
    /\ [][child = "exited" /\ pc \notin SdBody => pc' \notin SdBody]_vars

C6_Witness ==
    /\ trigger = "child_exit"
    /\ pc = "done"
    /\ input_queue # <<>>
    /\ childIn = <<>>
    /\ termCalls = 0
    /\ printed["main"] = <<>>

StopWritten == \E i \in DOMAIN childIn : childIn[i] = <<"s", "t", "o", "p", NL>>

\* C7: once the main thread has written the stop line to the child's input,
\* it writes nothing more to the child for the rest of the run; in particular
\* stop is written at most once.
C7_NoWriteAfterStop == [][StopWritten => childIn' = childIn]_vars

WriteFails == ~(child = "running" /\ childStdinOpen)

\* C8: a write to the child's input that fails because the child has exited
\* or closed its input is ignored: a failed forward continues the loop with
\* its next iteration, a failed stop write continues with the wait, and no
\* error is left to propagate.
C8_FailedWriteIgnored ==
    /\ [][pc = "write" /\ WriteFails /\ MainMoved =>
            pc' = "poll" /\ pendingExc' = pendingExc]_vars
    /\ [][pc = "sd_write" /\ WriteFails /\ MainMoved =>
            pc' = "sd_wait" /\ pendingExc' = pendingExc]_vars

C9_Return(ctx) ==
    CASE ctx = "exit" -> "break"
      [] ctx = "interrupt" -> "finally_set"
      [] ctx = "finally" -> "finally_close"

\* C9: shutdown_server called on a child that has already exited returns to
\* its caller at once: it writes nothing, does not wait, does not call
\* terminate, raises nothing and changes no other state; this holds for
\* every call, also the second of two calls in succession.
C9_ShutdownOfExitedChildIsNoop ==
    [][pc = "sd_poll" /\ child = "exited" /\ MainMoved =>
          /\ pc' = C9_Return(sdCtx)
          /\ sdNoops' = sdNoops + 1
          /\ UNCHANGED <<childIn, termCalls, printed, child, childStdinOpen,
                         pendingExc, user_input, input_queue, stop_event,
                         stdinClosed, relay, inp, fwd, trigger>>]_vars

C9_Witness ==
    /\ sdNoops = 2
    /\ childIn = <<>>
    /\ termCalls = 0
    /\ pendingExc = "none"
    /\ pc = "done"

C10_Notice == <<NL, "shutting down the server", ".", ".", ".", NL>>

\* C10: an interrupt delivered while the main loop is RUNNING goes to the
\* handler, which prints the notice and then runs the shutdown sequence as an
\* exit command does (poll; stop written if the child runs; wait; terminate
\* and a blocking wait on timeout); when the sequence returns the main thread
\* starts the cleanup.
C10_InterruptShutsDown ==
    /\ [][(pc \in LoopPcs /\ ~NotInterrupted) =>
            /\ pc' = "except_print"
            /\ UNCHANGED <<childIn, termCalls, printed, stop_event,
                           pendingExc>>]_vars
    /\ [][pc = "except_print" /\ MainMoved =>
            /\ printed' = [printed EXCEPT !["main"] = Append(@, C10_Notice)]
            /\ pc' = "sd_poll"
            /\ sdCtx' = "interrupt"
            /\ UNCHANGED <<childIn, termCalls, stop_event>>]_vars
    /\ [][sdCtx = "interrupt" /\ MainMoved =>
            /\ (pc = "sd_poll" =>
                  pc' = IF child = "running" THEN "sd_write" ELSE "finally_set")
            /\ (pc = "sd_write" =>
                  /\ pc' = "sd_wait"
                  /\ childIn' = IF child = "running" /\ childStdinOpen
                                THEN Append(childIn, <<"s", "t", "o", "p", NL>>)
                                ELSE childIn)
            /\ (pc = "sd_wait" =>
                  pc' = IF child = "exited" THEN "finally_set" ELSE "sd_terminate")
            /\ (pc = "sd_terminate" =>
                  pc' = "sd_wait_forever" /\ termCalls' = termCalls + 1)
            /\ (pc = "sd_wait_forever" =>
                  child = "exited" /\ pc' = "finally_set")
            /\ pendingExc' = pendingExc]_vars

C10_Witness ==
    /\ trigger = "interrupt"
    /\ pc = "done"
    /\ printed["main"] = <<C10_Notice>>
    /\ childIn = <<StopLine>>
    /\ stop_event
    /\ child = "exited"

\* the main loop has left RUNNING on one of the three paths of the claim
ShutdownTriggered == trigger \in {"exit", "child_exit", "interrupt"}

\* C11: under fair scheduling, once shutdown has been triggered by an exit
\* command, by the child exiting on its own or by an interrupt, the
\* supervisor process eventually ends: main() is over and the non-daemon
\* input thread has ended.
C11_EventuallyTerminates == ShutdownTriggered ~> procEnded

\* C12: the cleanup is entered from the break of the exit command, from the
\* liveness check that finds the child exited and from the return of the
\* interrupt handler's shutdown sequence; its steps run in this order and
\* nowhere else: the shutdown flag is set, the capture thread is joined, the
\* shutdown sequence runs if and only if the child is still running, the
\* controlling input is closed; when the cleanup has finished the flag is
\* set, the controlling input is closed and the child has exited.
C12_CleanupInOrder ==
    /\ [][pc = "break" /\ MainMoved => pc' = "finally_set"]_vars
    /\ [][(pc' = "finally_set" /\ pc # "finally_set" /\ NotInterrupted) =>
            \/ pc = "break" /\ trigger = "exit"
            \/ pc = "poll" /\ child = "exited"
            \/ pc \in SdPcs /\ sdCtx = "interrupt" /\ child = "exited"
            \/ pc = "write" /\ pendingExc' = "BrokenPipeError"]_vars
    /\ [][stop_event' # stop_event => pc = "finally_set" /\ stop_event']_vars
    /\ [][stdinClosed' # stdinClosed => pc = "finally_close" /\ stdinClosed']_vars
    /\ [][pc = "finally_set" /\ MainMoved =>
            /\ stop_event'
            /\ pc' = "finally_join"
            /\ UNCHANGED <<childIn, termCalls, stdinClosed>>]_vars
    /\ [][pc = "finally_join" /\ MainMoved =>
            /\ stop_event
            /\ pc' = "finally_poll"
            /\ UNCHANGED <<childIn, termCalls, stdinClosed>>]_vars
    /\ [][pc = "finally_poll" /\ MainMoved =>
            /\ stop_event
            /\ IF child = "running"
               THEN pc' = "sd_poll" /\ sdCtx' = "finally"
               ELSE pc' = "finally_close"
            /\ UNCHANGED <<childIn, termCalls, stdinClosed>>]_vars
    /\ [][(sdCtx = "finally" /\ MainMoved /\ pc' \notin SdPcs) =>
            pc' = "finally_close" /\ child = "exited" /\ ~stdinClosed']_vars
    /\ [][pc = "finally_close" /\ MainMoved =>
            /\ stop_event
            /\ child = "exited"
            /\ stdinClosed'
            /\ pc' \in {"done", "raised"}
            /\ UNCHANGED <<childIn, termCalls, stop_event>>]_vars
    /\ [][pc' = "done" => stop_event' /\ stdinClosed' /\ child' = "exited"]_vars

C12_Witness ==
    /\ pc = "done"
    /\ trigger = "interrupt"
    /\ stop_event
    /\ stdinClosed
    /\ child = "exited"
    /\ termCalls = 1
    /\ inp = "done"

InpMoved == inp' # inp

\* C13: with the shutdown flag set, the capture thread's test of the flag
\* ends it, and an iteration already past the test enqueues at most one line
\* and returns to the test, so at most one line is enqueued after the flag is
\* set; once ended the thread neither reads the controlling input nor
\* enqueues; an iteration that reads end of input ends the thread; the
\* thread ends only with the flag set or at end of input; every line enters
\* the queue through the thread, trimmed.
C13_CaptureStopsOnFlag ==
    /\ [][(stop_event /\ inp = "check" /\ InpMoved) =>
            inp' = "done" /\ UNCHANGED <<input_queue, stdinPipe>>]_vars
    /\ [][(stop_event /\ inp = "select" /\ InpMoved) =>
            \/ inp' = "done" /\ UNCHANGED <<input_queue, stdinPipe>>
            \/ /\ inp' = "check"
               /\ \/ UNCHANGED <<input_queue, stdinPipe>>
                  \/ /\ stdinPipe # <<>>
                     /\ input_queue' = Append(input_queue, Strip(Head(stdinPipe)))
                     /\ stdinPipe' = Tail(stdinPipe)]_vars
    /\ [][inp = "done" =>
            /\ inp' = "done"
            /\ IsPrefix(stdinPipe, stdinPipe')
            /\ Len(input_queue') <= Len(input_queue)]_vars
    /\ [][(inp = "select" /\ InpMoved /\ stdinPipe = <<>> /\ stdinEOF) =>
            inp' = "done"]_vars
    /\ [][(inp' = "done" /\ inp # "done") =>
            stop_event \/ (stdinEOF /\ stdinPipe = <<>>)]_vars
    /\ [][Len(input_queue') > Len(input_queue) =>
            /\ inp = "select" /\ inp' = "check"
            /\ stdinPipe # <<>>
            /\ input_queue' = Append(input_queue, Strip(Head(stdinPipe)))]_vars

C13_Witness ==
    /\ stop_event
    /\ inp = "done"
    /\ ~stdinEOF
    /\ ~stdinClosed
    /\ stdinPipe # <<>>
    /\ input_queue # <<>>

StripAll(lines) == [i \in DOMAIN lines |-> Strip(lines[i])]

\* the line the main loop has dequeued and not yet finished with
InHand == IF pc \in {"dispatch", "write"} THEN <<user_input>> ELSE <<>>

\* forwarded lines, then the lines on their way to the main loop, in the
\* order the capture thread reads them
Pipeline == fwd \o InHand \o input_queue \o StripAll(stdinPipe)

IsNumbered(l) == Len(l) = 2 /\ l[1] = "l"
NumberOf(l) == CHOOSE k \in 0..9 : l[2] = Digits[k + 1]
Numbered(lines) == SelectSeq(lines, IsNumbered)

ChildInWithoutStop == SelectSeq(childIn, LAMBDA l : l # <<"s", "t", "o", "p", NL>>)

\* C14: with the k-th typed line carrying the number k, the lines forwarded
\* so far, the line in hand, the queue and the unread input carry strictly
\* increasing numbers in that order: no line is forwarded twice and none
\* after a line captured later; every forwarded line is one the operator has
\* typed, and the child's input without stop is the forwarded lines, each
\* followed by a newline.
C14_ForwardedInCaptureOrder ==
    /\ \A i, j \in DOMAIN Numbered(Pipeline) :
          i < j => NumberOf(Numbered(Pipeline)[i]) < NumberOf(Numbered(Pipeline)[j])
    /\ \A i \in DOMAIN fwd :
          /\ IsNumbered(fwd[i])
          /\ NumberOf(fwd[i]) \in 1..(OrderMaxTyped - typedLeft)
    /\ ChildInWithoutStop = [i \in DOMAIN fwd |-> fwd[i] \o <<NL>>]

C14_Witness ==
    /\ Len(fwd) = 2
    /\ NumberOf(fwd[1]) = 1
    /\ NumberOf(fwd[2]) = 2

\* the child has written a line to the stream that has not been printed
Unprinted(s) == Len(printed[s]) < Len(produced[s])

\* C15: under fair scheduling, whenever a stream holds a line the child has
\* written and that has not been printed, eventually every line written to
\* that stream has been printed or the supervisor process has ended,
\* whatever the other stream and the main thread do.
C15_AvailableLineEventuallyPrinted ==
    \A s \in Streams : Unprinted(s) ~> (~Unprinted(s) \/ procEnded)

\* lines of the stream not yet returned by a read
Unread(s) == buf[s] \o pipe[s]

\* a step in which the relay of the stream takes a line
TakesLine(s) == Len(Unread(s)') < Len(Unread(s))

\* C16: a relay stops only in a read that returns end of stream (the child
\* has exited and nothing is left to read), and that read prints nothing;
\* every read that returns a line, a blank line included, prints that line
\* (without its trailing whitespace, plus the newline of print) and leaves
\* the relay running; nothing is printed for a stream except by such a read;
\* a relay that has stopped stays stopped and prints nothing more.
C16_RelayStopsAtEndOfStream ==
    [][\A s \in Streams :
          /\ (relay'[s] = "stopped" /\ relay[s] # "stopped") =>
                /\ relay[s] = "running"
                /\ child = "exited"
                /\ Unread(s) = <<>>
                /\ printed'[s] = printed[s]
          /\ TakesLine(s) =>
                /\ relay[s] = "running"
                /\ relay'[s] = "running"
                /\ Unread(s)' = Tail(Unread(s))
                /\ printed'[s] = Append(printed[s], RStrip(Head(Unread(s))) \o <<NL>>)
          /\ printed'[s] # printed[s] => TakesLine(s)
          /\ relay[s] \in {"stopped", "killed"} =>
                relay'[s] = relay[s] /\ printed'[s] = printed[s]]_vars

C16_Witness ==
    /\ relay["stdout"] = "stopped"
    /\ relay["stderr"] = "running"
    /\ produced["stdout"] = << <<NL>> >>
    /\ printed["stdout"] = << <<NL>> >>

\* the text has no white space at either end
Trimmed(l) == l = <<>> \/ (l[1] \notin {" ", "\t", "\n", "\r"}
                              /\ l[Len(l)] \notin {" ", "\t", "\n", "\r"})

\* the three ways a dequeued line is handled, by what the step does
ActsAsShutdown ==
    /\ pc' = "sd_poll" /\ sdCtx' = "exit"
    /\ UNCHANGED <<printed, childIn, fwd>>
ActsAsLocalPrint ==
    /\ pc' = "poll"
    /\ Len(printed'["main"]) = Len(printed["main"]) + 1
    /\ UNCHANGED <<childIn, fwd, sdCtx>>
ActsAsForwardOrDrop ==
    /\ pc' = IF child = "running" THEN "write" ELSE "poll"
    /\ UNCHANGED <<printed, childIn, fwd, sdCtx>>

\* C17: every dequeued line is trimmed text, and the step that handles it
\* does exactly one of three things, decided by that text alone: shutdown
\* when it equals exit in some letter case; otherwise a local print when it
\* starts with "fakelog " in lower case; otherwise forward-or-drop, which
\* takes the empty line, fakelog with nothing after it and "FAKELOG x". Only
\* a forward-or-drop line is ever written to the child.
C17_ClassificationTotalExclusive ==
    /\ [][user_input' # user_input => Trimmed(user_input')]_vars
    /\ [][(pc = "dispatch" /\ MainMoved) =>
            /\ IsExitLine(user_input) =>
                  ActsAsShutdown /\ ~ActsAsLocalPrint /\ ~ActsAsForwardOrDrop
            /\ (~IsExitLine(user_input) /\ IsFakelogLine(user_input)) =>
                  ActsAsLocalPrint /\ ~ActsAsShutdown /\ ~ActsAsForwardOrDrop
            /\ (~IsExitLine(user_input) /\ ~IsFakelogLine(user_input)) =>
                  ActsAsForwardOrDrop /\ ~ActsAsShutdown /\ ~ActsAsLocalPrint
            /\ user_input \in {<<>>, <<"f", "a", "k", "e", "l", "o", "g">>,
                                <<"F", "A", "K", "E", "L", "O", "G", " ", "x">>,
                                <<"e", "x", "i", "t", " ", "x">>} =>
                  ActsAsForwardOrDrop]_vars
    /\ [][fwd' # fwd =>
            /\ ~IsExitLine(user_input) /\ ~IsFakelogLine(user_input)
            /\ fwd' = Append(fwd, user_input)]_vars

C17_Witness ==
    /\ fwd = << <<>> >>
    /\ childIn = << <<NL>> >>
    /\ pc = "poll"

\* main() has returned, or an exception has left it
MainFinished == pc \in {"done", "raised"}

\* C18: whenever main() has finished, by returning or by an error or an
\* interrupt leaving it, the child has exited and the shutdown flag is set.
C18_NoOrphanedChild == MainFinished => (child = "exited" /\ stop_event)

====
